---------------------------- MODULE Spec2Model ----------------------------
(***************************************************************************)
(* A model of actix-http/src/helpers.rs: the status-line encoder, the      *)
(* content-length encoder with its size tiers, the general digit emitter   *)
(* write_usize and the io::Write adapter Writer over a BytesMut.           *)
(*                                                                         *)
(* Bytes are the integers 0..255 and a BytesMut is a sequence of bytes.    *)
(* A usize is 64 bits wide and is kept as four 16-bit limbs, least         *)
(* significant first, because the model checker's integers are 32 bits.    *)
(* u8/u16/u32 values are plain integers.                                   *)
(***************************************************************************)
EXTENDS Integers, Sequences, FiniteSets, TLC

VARIABLES
    buffers,          \* the callers' BytesMut objects: buffer id -> contents
    overflow_checks,  \* the build profile: does u8 `+` panic on overflow?
    panicked,         \* a call has panicked and unwound the thread
    pc,               \* "idle", or the position inside write_usize
    frame,            \* the activation record of the call in progress
    log,              \* history: one record per finished call
    initial,          \* history: the buffers' contents at the start
    calls             \* history: number of calls started

vars == <<buffers, overflow_checks, panicked, pc, frame, log, initial, calls>>

---------------------------------------------------------------------------
(* Bounds of the model. *)

\* calls in one behaviour of Spec
MaxCalls == 2
\* write_content_length / write_usize are tried on every n in 0..DenseMax
DenseMax == 10100
\* ... and on every n within Window of a power of ten or of two
Window == 2
\* ... and on StrideCount multiples of Stride
Stride == 7919
StrideCount == 130
\* the loops of write_usize are followed step by step on every n in 0..SmallMax
SmallMax == 120

---------------------------------------------------------------------------
(* Machine integers. *)

U8_MAX == 255
U16_MAX == 65535
LimbBits == 16
LimbBase == 2 ^ LimbBits

\* `x as u8` for an integer x of a wider unsigned type: truncation.
AsU8(x) == x % (U8_MAX + 1)

\* whether `x as u8` keeps the value of x
Kept(x) == AsU8(x) = x

\* usize values: <<l1, l2, l3, l4>> stands for l1 + 2^16 l2 + 2^32 l3 + 2^48 l4.
UsizeOf(x) == <<x % LimbBase, x \div LimbBase, 0, 0>>

\* `n as u8`, `n as u16`, `n as u32` for n: usize keep the low bits.
UsizeAsU8(n) == n[1] % (U8_MAX + 1)
UsizeAsU16(n) == n[1]
UsizeAsU32(n) == n[2] * LimbBase + n[1]

\* whether the cast above keeps the value of n
FitsU8(n) == n[1] <= U8_MAX /\ n[2] = 0 /\ n[3] = 0 /\ n[4] = 0
FitsU16(n) == n[2] = 0 /\ n[3] = 0 /\ n[4] = 0
FitsU32(n) == n[3] = 0 /\ n[4] = 0

\* `n < k` for n: usize and a literal k below 2^31
UsizeLt(n, k) ==
    /\ n[3] = 0
    /\ n[4] = 0
    /\ n[2] < LimbBase \div 2
    /\ n[2] * LimbBase + n[1] < k

\* `n > 9` for n: usize
UsizeGt9(n) == ~(n[1] <= 9 /\ n[2] = 0 /\ n[3] = 0 /\ n[4] = 0)

\* `n % 10` and `n / 10` for n: usize, by long division from the top limb
Rem4(n) == n[4] % 10
Rem3(n) == (Rem4(n) * LimbBase + n[3]) % 10
Rem2(n) == (Rem3(n) * LimbBase + n[2]) % 10
UsizeMod10(n) == (Rem2(n) * LimbBase + n[1]) % 10
UsizeDiv10(n) ==
    << (Rem2(n) * LimbBase + n[1]) \div 10,
       (Rem3(n) * LimbBase + n[2]) \div 10,
       (Rem4(n) * LimbBase + n[3]) \div 10,
       n[4] \div 10 >>

---------------------------------------------------------------------------
(* Byte strings of the source. *)

DIGITS_START == 48
SPACE == 32
HTTP_SLASH == <<72, 84, 84, 80, 47>>
V11_SP == <<49, 46, 49, 32>>
V10_SP == <<49, 46, 48, 32>>
V09_SP == <<48, 46, 57, 32>>
CONTENT_LENGTH == <<13, 10, 99, 111, 110, 116, 101, 110, 116, 45,
                    108, 101, 110, 103, 116, 104, 58, 32>>
CRLF == <<13, 10>>

\* http::Version
Versions == {"HTTP_09", "HTTP_10", "HTTP_11", "HTTP_2", "HTTP_3"}

---------------------------------------------------------------------------
(* The execution context of a call: the BytesMut it appends to, the        *)
(* scratch BytesMut of write_usize, whether the call has panicked, and two *)
(* history flags: `lossy` (an `as` cast changed a value) and `carry` (a    *)
(* u8 addition exceeded 8 bits).                                           *)

Ctx(bytes) ==
    [bytes |-> bytes, buf |-> <<>>, panicked |-> FALSE,
     lossy |-> FALSE, carry |-> FALSE]

\* mutant: the slice is written from the start of the buffer
put_slice_at_start(st, src) ==
    IF st.panicked THEN st
    ELSE [st EXCEPT !.bytes = src \o SubSeq(@, Len(src) + 1, Len(@))]

\* BytesMut::put_slice, BytesMut::put_u8: append at the end
put_slice(st, src) ==
    IF st.panicked THEN st ELSE [st EXCEPT !.bytes = @ \o src]

put_u8(st, b) ==
    IF st.panicked THEN st ELSE [st EXCEPT !.bytes = Append(@, b)]

\* BytesMut::extend_from_slice
extend_from_slice(bytes, src) == bytes \o src

\* `DIGITS_START + d` on u8: panics on overflow when the build checks
\* overflow, wraps otherwise.
Checked(st, d) ==
    IF st.panicked THEN st
    ELSE [st EXCEPT !.carry = @ \/ DIGITS_START + d > U8_MAX,
                    !.panicked = overflow_checks /\ DIGITS_START + d > U8_MAX]

\* bytes.put_u8(DIGITS_START + d)
PutDigit(st, d) == put_u8(Checked(st, d), AsU8(DIGITS_START + d))

\* buf.put_u8(DIGITS_START + d), buf the scratch of write_usize
PushDigit(st, d) ==
    LET c == Checked(st, d)
    IN IF c.panicked THEN c
       ELSE [c EXCEPT !.buf = Append(@, AsU8(DIGITS_START + d))]

\* records that a cast kept (ok) or changed (~ok) the value it was applied to
Cast(st, ok) == IF st.panicked THEN st ELSE [st EXCEPT !.lossy = @ \/ ~ok]

---------------------------------------------------------------------------
(* write_status_line *)

\* mutant: an unrecognized version still gets the separating space
VersionSegmentKeepsSpace(version) ==
    CASE version = "HTTP_11" -> V11_SP
      [] version = "HTTP_10" -> V10_SP
      [] version = "HTTP_09" -> V09_SP
      [] OTHER -> <<SPACE>>

\* the match on `version`
VersionSegment(version) ==
    CASE version = "HTTP_11" -> V11_SP
      [] version = "HTTP_10" -> V10_SP
      [] version = "HTTP_09" -> V09_SP
      [] OTHER -> <<>>

\* mutant: the tens digit is not reduced modulo 10
StatusDigitsTensNotReduced(n) ==
    << AsU8(n \div 100), AsU8(n \div 10), AsU8(n % 10) >>

\* mutant: the hundreds digit is reduced modulo 10
StatusDigitsHundredsReduced(n) ==
    << AsU8((n \div 100) % 10), AsU8((n \div 10) % 10), AsU8(n % 10) >>

\* d100, d10, d1 of a u16
StatusDigits(n) ==
    << AsU8(n \div 100), AsU8((n \div 10) % 10), AsU8(n % 10) >>

WriteStatusLine(version, n, st) ==
    LET s1 == put_slice(st, HTTP_SLASH)
        s2 == put_slice(s1, VersionSegment(version))
        d  == StatusDigits(n)
        s3 == Cast(s2, Kept(n \div 100) /\ Kept((n \div 10) % 10) /\ Kept(n % 10))
        s4 == PutDigit(s3, d[1])
        s5 == PutDigit(s4, d[2])
        s6 == PutDigit(s5, d[3])
    IN put_u8(s6, SPACE)

---------------------------------------------------------------------------
(* write_content_length: the six fixed tiers *)

\* n < 10
Tier1(n, st) ==
    PutDigit(Cast(st, FitsU8(n)), UsizeAsU8(n))

\* n < 100
Tier2(n, st) ==
    LET m   == UsizeAsU8(n)
        d10 == m \div 10
        d1  == m % 10
    IN PutDigit(PutDigit(Cast(st, FitsU8(n)), d10), d1)

\* mutant: the three-digit tier narrows n to u8, as the tier before it
Tier3NarrowedToU8(n, st) ==
    LET m    == UsizeAsU8(n)
        d100 == AsU8(m \div 100)
        d10  == AsU8((m \div 10) % 10)
        d1   == AsU8(m % 10)
        s0   == Cast(st, FitsU8(n) /\ Kept(m \div 100)
                        /\ Kept((m \div 10) % 10) /\ Kept(m % 10))
    IN PutDigit(PutDigit(PutDigit(s0, d100), d10), d1)

\* n < 1000
Tier3(n, st) ==
    LET m    == UsizeAsU16(n)
        d100 == AsU8(m \div 100)
        d10  == AsU8((m \div 10) % 10)
        d1   == AsU8(m % 10)
        s0   == Cast(st, FitsU16(n) /\ Kept(m \div 100)
                        /\ Kept((m \div 10) % 10) /\ Kept(m % 10))
    IN PutDigit(PutDigit(PutDigit(s0, d100), d10), d1)

\* mutant: the hundreds and tens digits change places
Tier4DigitsSwapped(n, st) ==
    LET m     == UsizeAsU16(n)
        d1000 == AsU8(m \div 1000)
        d100  == AsU8((m \div 100) % 10)
        d10   == AsU8((m \div 10) % 10)
        d1    == AsU8(m % 10)
        s0    == Cast(st, FitsU16(n) /\ Kept(m \div 1000) /\ Kept((m \div 100) % 10)
                         /\ Kept((m \div 10) % 10) /\ Kept(m % 10))
    IN PutDigit(PutDigit(PutDigit(PutDigit(s0, d1000), d10), d100), d1)

\* n < 10_000
Tier4(n, st) ==
    LET m     == UsizeAsU16(n)
        d1000 == AsU8(m \div 1000)
        d100  == AsU8((m \div 100) % 10)
        d10   == AsU8((m \div 10) % 10)
        d1    == AsU8(m % 10)
        s0    == Cast(st, FitsU16(n) /\ Kept(m \div 1000) /\ Kept((m \div 100) % 10)
                         /\ Kept((m \div 10) % 10) /\ Kept(m % 10))
    IN PutDigit(PutDigit(PutDigit(PutDigit(s0, d1000), d100), d10), d1)

\* n < 100_000
Tier5(n, st) ==
    LET m      == UsizeAsU32(n)
        d10000 == AsU8(m \div 10000)
        d1000  == AsU8((m \div 1000) % 10)
        d100   == AsU8((m \div 100) % 10)
        d10    == AsU8((m \div 10) % 10)
        d1     == AsU8(m % 10)
        s0     == Cast(st, FitsU32(n) /\ Kept(m \div 10000) /\ Kept((m \div 1000) % 10)
                          /\ Kept((m \div 100) % 10) /\ Kept((m \div 10) % 10)
                          /\ Kept(m % 10))
    IN PutDigit(PutDigit(PutDigit(PutDigit(PutDigit(
           s0, d10000), d1000), d100), d10), d1)

\* n < 1_000_000
Tier6(n, st) ==
    LET m       == UsizeAsU32(n)
        d100000 == AsU8(m \div 100000)
        d10000  == AsU8((m \div 10000) % 10)
        d1000   == AsU8((m \div 1000) % 10)
        d100    == AsU8((m \div 100) % 10)
        d10     == AsU8((m \div 10) % 10)
        d1      == AsU8(m % 10)
        s0      == Cast(st, FitsU32(n) /\ Kept(m \div 100000) /\ Kept((m \div 10000) % 10)
                           /\ Kept((m \div 1000) % 10) /\ Kept((m \div 100) % 10)
                           /\ Kept((m \div 10) % 10) /\ Kept(m % 10))
    IN PutDigit(PutDigit(PutDigit(PutDigit(PutDigit(PutDigit(
           s0, d100000), d10000), d1000), d100), d10), d1)

\* does the if-chain end in the `else` branch, the call of write_usize?
GeneralPath(n) == ~UsizeLt(n, 1000000)

\* mutant: the two-digit tier takes 100 as well
FixedTierOffByOne(n, st) ==
    IF UsizeLt(n, 10) THEN Tier1(n, st)
    ELSE IF UsizeLt(n, 101) THEN Tier2(n, st)
    ELSE IF UsizeLt(n, 1000) THEN Tier3(n, st)
    ELSE IF UsizeLt(n, 10000) THEN Tier4(n, st)
    ELSE IF UsizeLt(n, 100000) THEN Tier5(n, st)
    ELSE Tier6(n, st)

\* the if-chain up to the last fixed tier
FixedTier(n, st) ==
    IF UsizeLt(n, 10) THEN Tier1(n, st)
    ELSE IF UsizeLt(n, 100) THEN Tier2(n, st)
    ELSE IF UsizeLt(n, 1000) THEN Tier3(n, st)
    ELSE IF UsizeLt(n, 10000) THEN Tier4(n, st)
    ELSE IF UsizeLt(n, 100000) THEN Tier5(n, st)
    ELSE Tier6(n, st)

---------------------------------------------------------------------------
(* write_usize *)

\* BytesMut::with_capacity(20)
SCRATCH_CAPACITY == 20

\* mutant: the scratch is one BytesMut kept from call to call
NewScratchReused(st) == st

\* `let mut buf = BytesMut::with_capacity(20)`: a new, empty scratch
NewScratch(st) == [st EXCEPT !.buf = <<>>]

\* mutant: the loop runs until n is 0
LoopTestUntilZero(n) == n # UsizeOf(0)

\* `while n > 9`
LoopTest(n) == UsizeGt9(n)

\* one iteration of the while loop: the new n and context
LoopBody(n, st) ==
    LET lsd == AsU8(UsizeMod10(n))
    IN [n |-> UsizeDiv10(n), st |-> PushDigit(Cast(st, Kept(UsizeMod10(n))), lsd)]

\* bytes.put_u8(DIGITS_START + (n as u8))
PutMsd(n, st) == PutDigit(Cast(st, FitsU8(n)), UsizeAsU8(n))

\* the first index of `(0..buf.len()).rev()`, counting from 1; 0: none
ReplayStart(st) == Len(st.buf)

\* bytes.put_u8(buf[i])
ReplayBody(i, st) == put_u8(st, st.buf[i])

RECURSIVE WhileLoop(_, _)
WhileLoop(n, st) ==
    IF ~st.panicked /\ LoopTest(n)
    THEN LET r == LoopBody(n, st) IN WhileLoop(r.n, r.st)
    ELSE [n |-> n, st |-> st]

RECURSIVE ForLoop(_, _)
ForLoop(i, st) == IF i = 0 THEN st ELSE ForLoop(i - 1, ReplayBody(i, st))

\* a whole call of write_usize
WriteUsize(n, st) ==
    LET w == WhileLoop(n, NewScratch(st))
        m == PutMsd(w.n, w.st)
    IN ForLoop(ReplayStart(m), m)

\* a whole call of write_content_length
WriteContentLength(n, st) ==
    LET s1 == put_slice(st, CONTENT_LENGTH)
        s2 == IF GeneralPath(n) THEN WriteUsize(n, s1) ELSE FixedTier(n, s1)
    IN put_slice(s2, CRLF)

---------------------------------------------------------------------------
(* impl io::Write for Writer *)

\* mutant: write returns the length of the buffer, not of the slice
WriterWriteReturnsTotal(bytes, src) ==
    [bytes |-> extend_from_slice(bytes, src),
     ret |-> <<"Ok", Len(extend_from_slice(bytes, src))>>]

\* Writer::write: the buffer afterwards and the value returned
WriterWrite(bytes, src) ==
    [bytes |-> extend_from_slice(bytes, src), ret |-> <<"Ok", Len(src)>>]

\* Writer::flush
WriterFlush(bytes) == [bytes |-> bytes, ret |-> <<"Ok">>]

---------------------------------------------------------------------------
(* The inputs the calls are tried on. *)

Bufs == {1, 2}

\* n * m + a on limbs (m, a below 2^15), modulo the width of the sequence
RECURSIVE MulAddFrom(_, _, _, _)
MulAddFrom(x, m, a, k) ==
    IF k > Len(x) THEN <<>>
    ELSE LET c == x[k] * m + a
         IN <<c % LimbBase>> \o MulAddFrom(x, m, c \div LimbBase, k + 1)

MulAdd(x, m, a) == MulAddFrom(x, m, a, 1)

\* 10^k and 10^k - 1 as usize, k in 0..19
RECURSIVE TenTo(_)
TenTo(k) == IF k = 0 THEN UsizeOf(1) ELSE MulAdd(TenTo(k - 1), 10, 0)

RECURSIVE Nines(_)
Nines(k) == IF k = 0 THEN UsizeOf(0) ELSE MulAdd(Nines(k - 1), 10, 9)

\* the highest k with 10^k representable in 64 bits
MAX_POW10 == 19

NearPowersOfTen ==
    UNION { { MulAdd(TenTo(k - 1), 10, j) : j \in 0..Window }
            \cup { MulAdd(Nines(k - 1), 10, 10 - j) : j \in 1..Window }
          : k \in 1..MAX_POW10 }

NearPowersOfTwo ==
    UNION { { <<j, 1, 0, 0>>, <<j, 0, 1, 0>>, <<j, 0, 0, 1>>,
              <<LimbBase - 1 - j, 0, 0, 0>>,
              <<LimbBase - 1 - j, LimbBase - 1, 0, 0>>,
              <<LimbBase - 1 - j, LimbBase - 1, LimbBase - 1, 0>>,
              <<LimbBase - 1 - j, LimbBase - 1, LimbBase - 1, LimbBase - 1>> }
          : j \in 0..Window }

\* the values of tests::test_write_content_length above 0..DenseMax
TestLengths ==
    { UsizeOf(5909), UsizeOf(59094), UsizeOf(590947), UsizeOf(5909471),
      UsizeOf(59094718), <<6432, 0, 1, 0>> }

Lengths ==
    { UsizeOf(x) : x \in 0..DenseMax }
    \cup { UsizeOf(x * Stride) : x \in 1..StrideCount }
    \cup NearPowersOfTen \cup NearPowersOfTwo \cup TestLengths

\* the inputs of SpecLoops
LoopLengths ==
    { UsizeOf(x) : x \in 0..SmallMax }
    \cup NearPowersOfTen \cup NearPowersOfTwo \cup TestLengths

StatusCodes == 0..U16_MAX

\* the inputs of Spec, where calls follow one another
SampleVersions == {"HTTP_11", "HTTP_2"}
SampleCodes == {200, 20800}
SampleLengths == { UsizeOf(7), TenTo(6) }
SampleUsizes == { <<6432, 0, 1, 0>> }
SampleSlices == { <<>>, <<104, 105>> }
InitialContents == { <<>>, <<88>> }

---------------------------------------------------------------------------
(* The state machine. *)

IdleFrame ==
    [op |-> "none", target |-> 1, args |-> <<>>, before |-> <<>>,
     n |-> UsizeOf(0), i |-> 0, iters |-> 0, st |-> Ctx(<<>>)]

\* the context a call on buffer b starts in; the scratch is whatever the
\* last activation left until write_usize makes a new one
Enter(b) == [Ctx(buffers[b]) EXCEPT !.buf = frame.st.buf]

Init ==
    /\ buffers \in [Bufs -> InitialContents]
    /\ buffers[2] = <<>>
    /\ overflow_checks \in BOOLEAN
    /\ panicked = FALSE
    /\ pc = "idle"
    /\ frame = IdleFrame
    /\ log = <<>>
    /\ initial = buffers
    /\ calls = 0

\* a call of `op` on buffer b with `args`, begun with the buffer holding
\* `before`, ends in context r returning `ret` (or panicking)
Return(op, b, args, before, iters, r, ret) ==
    /\ buffers' = [buffers EXCEPT ![b] = r.bytes]
    /\ panicked' = r.panicked
    /\ pc' = "idle"
    /\ log' = Append(log,
                [op |-> op, target |-> b, args |-> args, before |-> before,
                 after |-> r.bytes, iters |-> iters,
                 ret |-> IF r.panicked THEN <<"panic">> ELSE ret,
                 panicked |-> r.panicked, lossy |-> r.lossy, carry |-> r.carry])

\* a step inside write_usize that leaves it at position `at`
Step(at, n, i, iters, r) ==
    IF r.panicked
    THEN /\ Return(frame.op, frame.target, frame.args, frame.before, iters, r, <<>>)
         /\ frame' = [frame EXCEPT !.st = r]
    ELSE /\ buffers' = [buffers EXCEPT ![frame.target] = r.bytes]
         /\ frame' = [frame EXCEPT !.n = n, !.i = i, !.iters = iters, !.st = r]
         /\ pc' = at
         /\ UNCHANGED <<panicked, log>>

CallWriteStatusLine(b, version, n) ==
    /\ pc = "idle"
    /\ ~panicked
    /\ calls' = calls + 1
    /\ LET r == WriteStatusLine(version, n, Enter(b))
       IN /\ Return("write_status_line", b, <<version, n>>, buffers[b], 0, r, <<>>)
          /\ frame' = [frame EXCEPT !.st = r]
    /\ UNCHANGED <<overflow_checks, initial>>

\* write_usize entered with n and context s for the call (op, b, args)
EnterWriteUsize(op, b, args, n, s) ==
    /\ frame' = [op |-> op, target |-> b, args |-> args, before |-> buffers[b],
                 n |-> n, i |-> 0, iters |-> 0, st |-> NewScratch(s)]
    /\ buffers' = [buffers EXCEPT ![b] = s.bytes]
    /\ pc' = "while"
    /\ UNCHANGED <<panicked, log>>

CallWriteContentLength(b, n) ==
    /\ pc = "idle"
    /\ ~panicked
    /\ calls' = calls + 1
    /\ LET s1 == put_slice(Enter(b), CONTENT_LENGTH)
       IN IF GeneralPath(n)
          THEN EnterWriteUsize("write_content_length", b, <<n>>, n, s1)
          ELSE LET r == put_slice(FixedTier(n, s1), CRLF)
               IN /\ Return("write_content_length", b, <<n>>, buffers[b], 0, r, <<>>)
                  /\ frame' = [frame EXCEPT !.st = r]
    /\ UNCHANGED <<overflow_checks, initial>>

CallWriteUsize(b, n) ==
    /\ pc = "idle"
    /\ ~panicked
    /\ calls' = calls + 1
    /\ EnterWriteUsize("write_usize", b, <<n>>, n, Enter(b))
    /\ UNCHANGED <<overflow_checks, initial>>

\* `while n > 9 { ... }`: one iteration
WhileIter ==
    /\ pc = "while"
    /\ LoopTest(frame.n)
    /\ LET r == LoopBody(frame.n, frame.st)
       IN Step("while", r.n, frame.i, frame.iters + 1, r.st)
    /\ UNCHANGED <<overflow_checks, initial, calls>>

\* the loop is left; the most significant digit goes to the result buffer
WhileExit ==
    /\ pc = "while"
    /\ ~LoopTest(frame.n)
    /\ LET r == PutMsd(frame.n, frame.st)
       IN Step("for", frame.n, ReplayStart(r), frame.iters, r)
    /\ UNCHANGED <<overflow_checks, initial, calls>>

\* `for i in (0..buf.len()).rev() { ... }`: one iteration
ForIter ==
    /\ pc = "for"
    /\ frame.i > 0
    /\ Step("for", frame.n, frame.i - 1, frame.iters, ReplayBody(frame.i, frame.st))
    /\ UNCHANGED <<overflow_checks, initial, calls>>

\* write_usize returns; write_content_length, if it is the caller, ends the line
ForExit ==
    /\ pc = "for"
    /\ frame.i = 0
    /\ LET r == IF frame.op = "write_content_length"
                THEN put_slice(frame.st, CRLF) ELSE frame.st
       IN /\ Return(frame.op, frame.target, frame.args, frame.before,
                    frame.iters, r, <<>>)
          /\ frame' = [frame EXCEPT !.st = r]
    /\ UNCHANGED <<overflow_checks, initial, calls>>

CallWrite(b, src) ==
    /\ pc = "idle"
    /\ ~panicked
    /\ calls' = calls + 1
    /\ LET w == WriterWrite(buffers[b], src)
       IN Return("write", b, <<src>>, buffers[b], 0,
                 [Ctx(w.bytes) EXCEPT !.buf = frame.st.buf], w.ret)
    /\ UNCHANGED <<overflow_checks, initial, frame>>

CallFlush(b) ==
    /\ pc = "idle"
    /\ ~panicked
    /\ calls' = calls + 1
    /\ LET w == WriterFlush(buffers[b])
       IN Return("flush", b, <<>>, buffers[b], 0,
                 [Ctx(w.bytes) EXCEPT !.buf = frame.st.buf], w.ret)
    /\ UNCHANGED <<overflow_checks, initial, frame>>

\* calls following one another on the callers' buffers
Next ==
    \/ /\ calls < MaxCalls
       /\ \E b \in Bufs :
            \/ \E version \in SampleVersions, n \in SampleCodes :
                 CallWriteStatusLine(b, version, n)
            \/ \E n \in SampleLengths : CallWriteContentLength(b, n)
            \/ \E n \in SampleUsizes : CallWriteUsize(b, n)
            \/ \E src \in SampleSlices : CallWrite(b, src)
            \/ CallFlush(b)
    \/ WhileIter
    \/ WhileExit
    \/ ForIter
    \/ ForExit

Spec == Init /\ [][Next]_vars

\* one call on a new, empty buffer
InitFresh ==
    /\ buffers = [b \in Bufs |-> <<>>]
    /\ overflow_checks \in BOOLEAN
    /\ panicked = FALSE
    /\ pc = "idle"
    /\ frame = IdleFrame
    /\ log = <<>>
    /\ initial = buffers
    /\ calls = 0

\* write_status_line on every version and every u16
NextStatusLine ==
    /\ calls = 0
    /\ \E version \in Versions, n \in StatusCodes :
         CallWriteStatusLine(1, version, n)

SpecStatusLine == InitFresh /\ [][NextStatusLine]_vars

\* write_content_length and write_usize on every n of Lengths
NextDigits ==
    \/ /\ calls = 0
       /\ \E n \in Lengths :
            \/ CallWriteContentLength(1, n)
            \/ CallWriteUsize(1, n)
    \/ WhileIter
    \/ WhileExit
    \/ ForIter
    \/ ForExit

SpecDigits == InitFresh /\ [][NextDigits]_vars

\* the loops of write_usize on the n of LoopLengths; the thread that called
\* keeps running until the call returns
NextLoops ==
    \/ /\ calls = 0
       /\ \E n \in LoopLengths :
            \/ CallWriteContentLength(1, n)
            \/ CallWriteUsize(1, n)
    \/ WhileIter
    \/ WhileExit
    \/ ForIter
    \/ ForExit

SpecLoops ==
    /\ InitFresh
    /\ [][NextLoops]_vars
    /\ WF_vars(WhileIter) /\ WF_vars(WhileExit)
    /\ WF_vars(ForIter) /\ WF_vars(ForExit)

---------------------------------------------------------------------------
(* What the claims speak of. *)

IsPrefix(p, s) == Len(p) <= Len(s) /\ SubSeq(s, 1, Len(p)) = p

\* the bytes a finished call e appended
Appended(e) == SubSeq(e.after, Len(e.before) + 1, Len(e.after))

IsDigit(b) == b \in 48..57

Recognized == {"HTTP_09", "HTTP_10", "HTTP_11"}

\* "0.9", "1.0", "1.1"
VersionText(version) ==
    CASE version = "HTTP_09" -> <<48, 46, 57>>
      [] version = "HTTP_10" -> <<49, 46, 48>>
      [] version = "HTTP_11" -> <<49, 46, 49>>

\* ds is the zero-padded three-digit decimal of c
ZeroPadded3(ds, c) ==
    /\ Len(ds) = 3
    /\ \A k \in 1..3 : IsDigit(ds[k])
    /\ 100 * (ds[1] - 48) + 10 * (ds[2] - 48) + (ds[3] - 48) = c

\* '0' + d in wrapping 8-bit arithmetic
Wrapped(d) == (48 + d) % 256

---------------------------------------------------------------------------
(* write_status_line: C2, C3, C4 *)

\* C2: for every version in {0.9, 1.0, 1.1} and every code c in 0..999,
\* write_status_line appends exactly "HTTP/" v " " ddd " " (13 bytes), ddd
\* the zero-padded three-digit decimal of c, and does not panic.
C2_StatusLineExact ==
    \A k \in DOMAIN log :
        LET e == log[k] IN
        (e.op = "write_status_line" /\ e.args[1] \in Recognized /\ e.args[2] <= 999)
        => /\ ~e.panicked
           /\ IsPrefix(e.before, e.after)
           /\ LET out == Appended(e)
              IN /\ Len(out) = 13
                 /\ SubSeq(out, 1, 5) = <<72, 84, 84, 80, 47>>
                 /\ SubSeq(out, 6, 8) = VersionText(e.args[1])
                 /\ out[9] = 32
                 /\ ZeroPadded3(SubSeq(out, 10, 12), e.args[2])
                 /\ out[13] = 32

\* a call with version 1.0 and a code with a zero in it has returned
C2_Witness ==
    \E k \in DOMAIN log :
        /\ log[k].op = "write_status_line"
        /\ log[k].args = <<"HTTP_10", 404>>
        /\ overflow_checks
        /\ Len(log[k].after) = 13

\* C3 as claimed: with a version outside {0.9, 1.0, 1.1} and code 200 the
\* bytes appended are exactly "HTTP/ 200 ".
C3_Original ==
    \A k \in DOMAIN log :
        LET e == log[k] IN
        (e.op = "write_status_line" /\ e.args[1] \notin Recognized /\ e.args[2] = 200)
        => /\ ~e.panicked
           /\ e.after = e.before \o <<72, 84, 84, 80, 47, 32, 50, 48, 48, 32>>

\* C3 amended: with a version outside {0.9, 1.0, 1.1} and code 200 no error
\* is raised and the bytes appended are exactly "HTTP/200 ": the space
\* after the version belongs to the version segment and is omitted with it.
C3_VersionOmitted ==
    \A k \in DOMAIN log :
        LET e == log[k] IN
        (e.op = "write_status_line" /\ e.args[1] \notin Recognized /\ e.args[2] = 200)
        => /\ ~e.panicked
           /\ e.after = e.before \o <<72, 84, 84, 80, 47, 50, 48, 48, 32>>

C3_Witness ==
    \E k \in DOMAIN log :
        /\ log[k].op = "write_status_line"
        /\ log[k].args = <<"HTTP_2", 200>>
        /\ Len(log[k].after) = 9

\* the three code bytes and the space, as C4 gives them
CodeBytes(c) ==
    << Wrapped(c \div 100), Wrapped((c \div 10) % 10), Wrapped(c % 10), 32 >>

\* the first code byte does not fit 8 bits
HundredsOverflow(c) == 48 + ((c \div 100) % 256) > 255

---------------------------------------------------------------------------
(* write_content_length and write_usize: C1, C8, C9, C10 *)

\* x >= y for limb sequences of one length
RECURSIVE GeqFrom(_, _, _)
GeqFrom(x, y, k) ==
    IF k = 0 THEN TRUE
    ELSE IF x[k] # y[k] THEN x[k] > y[k]
    ELSE GeqFrom(x, y, k - 1)

Geq(x, y) == GeqFrom(x, y, Len(x))
Less(x, y) == ~Geq(x, y)

\* the number of decimal digits of a usize: 1 for 0
NumDigits(n) == 1 + Cardinality({ k \in 1..19 : Geq(n, TenTo(k)) })

\* the value of the first k decimal digit bytes of ds, on five limbs
RECURSIVE Horner(_, _)
Horner(ds, k) ==
    IF k = 0 THEN <<0, 0, 0, 0, 0>>
    ELSE MulAdd(Horner(ds, k - 1), 10, ds[k] - 48)

\* ds is decimal(n): digits only, no leading zero, digits(n) of them, value n
IsDecimalOf(ds, n) ==
    /\ Len(ds) \in 1..20
    /\ \A k \in DOMAIN ds : IsDigit(ds[k])
    /\ Len(ds) = 1 \/ ds[1] # 48
    /\ Len(ds) = NumDigits(n)
    /\ Horner(ds, Len(ds)) = n \o <<0>>

\* "\r\ncontent-length: "
HeaderText ==
    <<13, 10, 99, 111, 110, 116, 101, 110, 116, 45,
      108, 101, 110, 103, 116, 104, 58, 32>>

\* the bytes a finished call e put between the header name and the line end
\* (write_content_length), or all it appended (write_usize)
DigitsOf(e) ==
    IF e.op = "write_content_length"
    THEN SubSeq(Appended(e), 19, Len(Appended(e)) - 2)
    ELSE Appended(e)

UsizeMax == <<65535, 65535, 65535, 65535>>

\* C1: for every n, write_content_length(n, buf) appends exactly
\* "\r\ncontent-length: " decimal(n) "\r\n", decimal(n) without a leading
\* zero (but "0" for 0) and with exactly the number of digits of n.
C1_ContentLengthExact ==
    \A k \in DOMAIN log :
        LET e == log[k]
            out == Appended(e)
        IN e.op = "write_content_length"
           => /\ ~e.panicked
              /\ IsPrefix(e.before, e.after)
              /\ Len(out) >= 21
              /\ SubSeq(out, 1, 18) = HeaderText
              /\ SubSeq(out, Len(out) - 1, Len(out)) = <<13, 10>>
              /\ IsDecimalOf(DigitsOf(e), e.args[1])

\* the largest usize went through the general path and came out 20 digits
C1_Witness ==
    \E k \in DOMAIN log :
        /\ log[k].op = "write_content_length"
        /\ log[k].args[1] = UsizeMax
        /\ Len(DigitsOf(log[k])) = 20
        /\ log[k].iters = 19

\* C8: for every n < 1,000,000 the digits of the tier chosen are the bytes
\* write_usize(n) appends, and the whole output is what the general path
\* would have produced.
C8_TiersAgreeWithGeneral ==
    \A k \in DOMAIN log :
        LET e == log[k] IN
        (e.op = "write_content_length" /\ Less(e.args[1], TenTo(6)))
        => /\ e.iters = 0
           /\ DigitsOf(e) = WriteUsize(e.args[1], Ctx(<<>>)).bytes
           /\ e.after = put_slice(WriteUsize(e.args[1],
                            put_slice(Ctx(e.before), CONTENT_LENGTH)), CRLF).bytes

\* a value of the four-digit tier with distinct digits was written
C8_Witness ==
    \E k \in DOMAIN log :
        /\ log[k].op = "write_content_length"
        /\ log[k].args[1] = UsizeOf(5909)
        /\ log[k].iters = 0
        /\ Len(DigitsOf(log[k])) = 4

\* the bytes write_usize has put into the result buffer so far
Emitted ==
    SubSeq(buffers[frame.target],
           Len(frame.before) + 1
               + (IF frame.op = "write_content_length" THEN 18 ELSE 0),
           Len(buffers[frame.target]))

\* inside write_usize: the scratch stays within its capacity and holds one
\* digit per iteration, n loses one digit per iteration, and from the most
\* significant digit on the scratch is replayed in reverse
C9_Inside ==
    pc \in {"while", "for"} =>
        LET scratch == frame.st.buf
            total == NumDigits(frame.args[1])
        IN /\ Len(scratch) <= 20
           /\ Len(scratch) = frame.iters
           /\ pc = "while" =>
                 /\ NumDigits(frame.n) + frame.iters = total
                 /\ Emitted = <<>>
           /\ pc = "for" =>
                 /\ frame.iters = total - 1
                 /\ Less(frame.n, TenTo(1))
                 /\ Len(Emitted) = 1 + Len(scratch) - frame.i
                 /\ Emitted[1] = 48 + frame.n[1]
                 /\ \A j \in 1..(Len(scratch) - frame.i) :
                        Emitted[1 + j] = scratch[Len(scratch) + 1 - j]

\* a finished run of write_usize took digits(n) - 1 iterations
C9_Finished ==
    \A k \in DOMAIN log :
        LET e == log[k] IN
        (e.op = "write_usize" \/ (e.op = "write_content_length" /\ GeneralPath(e.args[1])))
        => /\ e.iters = NumDigits(e.args[1]) - 1
           /\ Len(DigitsOf(e)) = e.iters + 1

\* C9: for every n up to the 64-bit maximum the loop of write_usize
\* terminates, n strictly decreasing in each iteration, after exactly
\* digits(n) - 1 iterations; the scratch never holds more than 20 entries;
\* the most significant digit is appended first and the scratch is then
\* replayed in reverse.
C9_LoopTerminatesWithinScratch ==
    /\ [](C9_Inside /\ C9_Finished)
    /\ [][(pc = "while" /\ pc' = "while") => Less(frame'.n, frame.n)]_vars
    /\ (pc = "while") ~> (pc = "idle")

\* the replay of the 19 scratch digits of the largest usize is half done
C9_Witness ==
    /\ pc = "for"
    /\ frame.args[1] = UsizeMax
    /\ frame.iters = 19
    /\ Len(frame.st.buf) = 19
    /\ frame.i = 9

\* C10: in write_content_length and write_usize no narrowing cast changes
\* a value and no '0' + d exceeds 8 bits: every d is in 0..9 and every byte
\* between the header name and the line end is an ASCII digit.
C10_NoLossNoCarry ==
    /\ pc # "idle" =>
          /\ ~frame.st.lossy /\ ~frame.st.carry /\ ~frame.st.panicked
          /\ \A j \in DOMAIN frame.st.buf : IsDigit(frame.st.buf[j])
    /\ \A k \in DOMAIN log :
          LET e == log[k] IN
          e.op \in {"write_content_length", "write_usize"}
          => /\ ~e.lossy /\ ~e.carry /\ ~e.panicked
             /\ DigitsOf(e) # <<>>
             /\ \A j \in DOMAIN DigitsOf(e) : IsDigit(DigitsOf(e)[j])

\* the largest value of the three-digit tier, which does not fit 8 bits,
\* was written by a build that checks overflow
C10_Witness ==
    \E k \in DOMAIN log :
        /\ log[k].op = "write_content_length"
        /\ log[k].args[1] = UsizeOf(999)
        /\ overflow_checks
        /\ DigitsOf(log[k]) = <<57, 57, 57>>

---------------------------------------------------------------------------
(* Calls following one another: C5, C6, C7 *)

\* what the call e appends to a new, empty buffer
OwnOutput(e) ==
    CASE e.op = "write_status_line" ->
             WriteStatusLine(e.args[1], e.args[2], Ctx(<<>>)).bytes
      [] e.op = "write_content_length" ->
             WriteContentLength(e.args[1], Ctx(<<>>)).bytes
      [] e.op = "write_usize" -> WriteUsize(e.args[1], Ctx(<<>>)).bytes
      [] e.op = "write" -> e.args[1]
      [] e.op = "flush" -> <<>>

\* the initial contents of buffer b followed by the own output of each of
\* the first k calls that was made on b, in calling order
RECURSIVE Accumulated(_, _)
Accumulated(b, k) ==
    IF k = 0 THEN initial[b]
    ELSE IF log[k].target = b
         THEN Accumulated(b, k - 1) \o OwnOutput(log[k])
         ELSE Accumulated(b, k - 1)

\* C5: the encoders only append: after any sequence of calls a buffer
\* holds its initial contents followed by each call's own output in calling
\* order, and while a call runs nothing before its own output changes.
C5_AppendOnly ==
    \A b \in Bufs :
        /\ IsPrefix(Accumulated(b, Len(log)), buffers[b])
        /\ (pc = "idle" \/ frame.target # b)
               => buffers[b] = Accumulated(b, Len(log))
        /\ \A k \in DOMAIN log :
               log[k].target = b
               => /\ log[k].before = Accumulated(b, k - 1)
                  /\ log[k].after = Accumulated(b, k)

\* two encoder calls have returned on a buffer that was not empty at the
\* start
C5_Witness ==
    /\ Len(log) = 2
    /\ initial[1] # <<>>
    /\ log[1].target = 1 /\ log[1].op = "write_status_line"
    /\ log[2].target = 1 /\ log[2].op = "write_content_length"
    /\ log[2].iters > 0
    /\ Len(buffers[1]) > Len(log[1].after)

\* C6: every Writer::write(s) returns Ok(len(s)) and leaves the buffer
\* equal to its previous contents followed by s; every Writer::flush
\* returns Ok(()) and leaves the buffer unchanged; neither touches another
\* buffer.
C6_WriterAppends ==
    \A k \in DOMAIN log :
        LET e == log[k] IN
        /\ e.op = "write" =>
              /\ e.ret = <<"Ok", Len(e.args[1])>>
              /\ e.after = e.before \o e.args[1]
        /\ e.op = "flush" =>
              /\ e.ret = <<"Ok">>
              /\ e.after = e.before
        /\ (e.op \in {"write", "flush"} /\ k = Len(log) /\ pc = "idle") =>
              /\ buffers[e.target] = e.after
              /\ \A b \in Bufs \ {e.target} : buffers[b] = Accumulated(b, k - 1)

\* a non-empty slice was written to a non-empty buffer, which was then
\* flushed
C6_Witness ==
    /\ Len(log) = 2
    /\ log[1].op = "write" /\ log[1].args[1] # <<>> /\ log[1].before # <<>>
    /\ log[2].op = "flush" /\ log[2].target = log[1].target
    /\ log[2].before = log[1].after

\* C7: two calls of write_status_line (of write_content_length) with the
\* same arguments, each on an empty buffer, leave byte-identical contents
\* (and panic alike), whatever was called before.
C7_Deterministic ==
    \A j, k \in DOMAIN log :
        ( /\ log[j].op \in {"write_status_line", "write_content_length"}
          /\ log[j].op = log[k].op
          /\ log[j].args = log[k].args
          /\ log[j].before = <<>>
          /\ log[k].before = <<>> )
        => /\ log[j].after = log[k].after
           /\ log[j].panicked = log[k].panicked

\* the same length was written through the general path into two empty
\* buffers, one after the other
C7_Witness ==
    /\ Len(log) = 2
    /\ log[1].op = "write_content_length" /\ log[2].op = "write_content_length"
    /\ log[1].args = log[2].args
    /\ log[1].iters > 0
    /\ log[1].target # log[2].target
    /\ log[1].before = <<>> /\ log[2].before = <<>>

===========================================================================
